---- MODULE Spec2Model ----
(***************************************************************************)
(* Model of run.py: the command line entry point (main), the metadata and  *)
(* chapter-list requests, and the concurrent chapter download of           *)
(* download_novel: one fetch task per chapter on a ThreadPoolExecutor, the *)
(* as_completed collection loop under tqdm, the sort of the collected      *)
(* records and the hand-over to build_txt / build_epub.                    *)
(*                                                                         *)
(* Chapter positions are 0-based as in the code (idx of enumerate); the    *)
(* chapter list itself is a TLA+ sequence, so chapters[idx + 1] is the     *)
(* code's chapters[idx].                                                   *)
(***************************************************************************)
EXTENDS Integers, Sequences, FiniteSets, TLC

\* ------------------------------------------------------------------ bounds
MaxChapters == 3
MaxThreads == 2

\* Chapter titles the directory endpoint may return (two chapters may share one).
Titles == {"A", "B"}

\* Values config["default_threads"] may hold: config.json and --threads=N are
\* not validated, so zero and negative numbers occur.
ThreadValues == (-1) .. MaxThreads

Formats == {"epub", "txt"}

\* ------------------------------------------------------------------ values
\* Strings that become chapter content.  A string is modelled by its form and
\* the number / message formatted into it.
EmptyStr == [form |-> "empty", num |-> 0, err |-> ""]

\* the cleaned text of the chapter with item id n ("text-n")
Text(n) == [form |-> "text", num |-> n, err |-> ""]

\* f"【章节 {idx+1} 下载失败】"
FailedPlaceholder(idx) == [form |-> "failed", num |-> idx + 1, err |-> ""]

\* f"【章节 {idx+1} 下载失败：{str(e)}】"
FailedPlaceholderErr(idx, e) == [form |-> "failedErr", num |-> idx + 1, err |-> e]

\* What a finished future holds: a returned str, a returned None, or an exception.
PyStr(s) == [py |-> "str", str |-> s, exc |-> ""]
PyNone == [py |-> "None", str |-> EmptyStr, exc |-> ""]
PyRaise(e) == [py |-> "raise", str |-> EmptyStr, exc |-> e]
NotRun == [py |-> "unset", str |-> EmptyStr, exc |-> ""]

\* Python truthiness of a returned value (the `content or ...` of the loop).
Truthy(v) == v.py = "str" /\ v.str # EmptyStr

\* The outcomes of download_chapter(item_id): cleaned non-empty text, a text
\* that is empty after cleaning and strip(), None (bad code, missing content,
\* any swallowed error), or an exception escaping the task, which
\* future.result() re-raises in the loop.
Outcomes(item_id) ==
    {PyStr(Text(item_id)), PyStr(EmptyStr), PyNone, PyRaise("timeout")}

\* The chapter lists get_chapter_list can return: item ids are distinct (the
\* id is the chapter's place in the directory), titles need not be.
RECURSIVE ListsOfLen(_, _)
ListsOfLen(n, titles) ==
    IF n = 0 THEN {<<>>}
    ELSE {Append(l, [title |-> t, item_id |-> n - 1]) :
              l \in ListsOfLen(n - 1, titles), t \in titles}

ChapterLists(titles) == UNION {ListsOfLen(n, titles) : n \in 0 .. MaxChapters}

\* Responses of the metadata endpoint: the request raising (network error,
\* HTTP error status, bad JSON), else the JSON's code and the length of data.
MetaResponses ==
    [raised : BOOLEAN, code : {0, 1}, ndata : {0, 1}]

NoResponse == [raised |-> FALSE, code |-> -1, ndata |-> -1]

\* Responses of the directory endpoint: the request or the parsing raising,
\* a code other than 0, or code 0 with a chapter list.
ListResponses(titles) ==
    {[kind |-> k, list |-> <<>>] : k \in {"raise", "badcode"}}
        \cup {[kind |-> "ok", list |-> l] : l \in ChapterLists(titles)}

\* The --threads= argument: absent, not an integer, or an integer.
ThreadArgs ==
    {[kind |-> k, n |-> 0] : k \in {"absent", "bad"}}
        \cup {[kind |-> "int", n |-> k] : k \in ThreadValues}

VARIABLES
    pc,              \* where the process is
    exitCode,        \* -1 while running, else the process's exit status
    default_threads, \* config["default_threads"]
    default_format,  \* config["default_format"]
    metaResp,        \* the metadata endpoint's response, once requested
    listResp,        \* "unrequested", or how the directory endpoint answered
    notFound,        \* "未找到章节列表" has been printed
    chapters,        \* the chapter list
    total_chapters,  \* total_chapters, the total given to tqdm
    task,            \* per idx: "none", "pending", "running", "done"
    result,          \* per idx: what the future holds
    order,           \* the idx of each future yielded by as_completed, in order
    chap_contents,   \* the list of {title, content} records
    progress,        \* tqdm's count n
    built,           \* the chapter sequence handed to the builder
    builder          \* "none", or the builder called: "epub" / "txt"

vars == <<pc, exitCode, default_threads, default_format, metaResp, listResp,
          notFound, chapters, total_chapters, task, result, order, chap_contents,
          progress, built, builder>>

Indices == 0 .. (Len(chapters) - 1)

Range(s) == {s[p] : p \in 1 .. Len(s)}

Running == {i \in DOMAIN task : task[i] = "running"}

Init ==
    /\ pc = "main"
    /\ exitCode = -1
    /\ default_threads \in ThreadValues
    /\ default_format \in Formats
    /\ metaResp = NoResponse
    /\ listResp = "unrequested"
    /\ notFound = FALSE
    /\ chapters = <<>>
    /\ total_chapters = 0
    /\ task = [i \in {} |-> "none"]
    /\ result = [i \in {} |-> NotRun]
    /\ order = <<>>
    /\ chap_contents = <<>>
    /\ progress = 0
    /\ built = <<>>
    /\ builder = "none"

\* ------------------------------------------------------------------- main
\* sys.exit(1): usage error or no book id in the first argument.
MainBadArgs ==
    /\ pc = "main"
    /\ pc' = "exit"
    /\ exitCode' = 1
    /\ UNCHANGED <<default_threads, default_format, metaResp, listResp,
                   notFound, chapters, total_chapters, task, result, order,
                   chap_contents, progress, built, builder>>

\* The option loop: --txt / --epub set the format, --threads=N stores int(N)
\* unvalidated, an unparseable N is ignored.
ParsedThreads(old, arg) == IF arg.kind = "int" THEN arg.n ELSE old

ParsedFormat(old, arg) ==
    IF arg = "--txt" THEN "txt" ELSE IF arg = "--epub" THEN "epub" ELSE old

Main ==
    /\ pc = "main"
    /\ \E fmtArg \in {"absent", "--txt", "--epub"} :
          default_format' = ParsedFormat(default_format, fmtArg)
    /\ \E thrArg \in ThreadArgs :
          default_threads' = ParsedThreads(default_threads, thrArg)
    /\ pc' = "metadata"
    /\ UNCHANGED <<exitCode, metaResp, listResp, notFound, chapters,
                   total_chapters, task, result, order, chap_contents, progress,
                   built, builder>>

\* --------------------------------------------------------- get_book_metadata
\* (variant: the data array is not looked at)
MetadataOkCodeOnly(resp) == ~resp.raised /\ resp.code = 0

\* The response is used only when the request did not raise, code is 0 and
\* data is non-empty; every other case prints and calls sys.exit(1).
MetadataOk(resp) == ~resp.raised /\ resp.code = 0 /\ resp.ndata > 0

GetBookMetadata ==
    /\ pc = "metadata"
    /\ \E resp \in MetaResponses :
          /\ metaResp' = resp
          /\ IF MetadataOk(resp)
                THEN pc' = "chapter_list" /\ exitCode' = exitCode
                ELSE pc' = "exit" /\ exitCode' = 1
    /\ UNCHANGED <<default_threads, default_format, listResp, notFound,
                   chapters, total_chapters, task, result, order, chap_contents,
                   progress, built, builder>>

\* ---------------------------------------------------------- get_chapter_list
\* code 0 returns the flattened list; an exception or another code ends in
\* sys.exit(1).
GetChapterList(titles) ==
    /\ pc = "chapter_list"
    /\ \E resp \in ListResponses(titles) :
          /\ listResp' = resp.kind
          /\ IF resp.kind = "ok"
                THEN /\ chapters' = resp.list
                     /\ pc' = "check"
                     /\ exitCode' = exitCode
                ELSE /\ chapters' = chapters
                     /\ pc' = "exit"
                     /\ exitCode' = 1
    /\ UNCHANGED <<default_threads, default_format, metaResp, notFound,
                   total_chapters, task, result, order, chap_contents, progress,
                   built, builder>>

\* ------------------------------------------------------------ download_novel
\* (variant: the empty list is not told apart)
NoChaptersNever(chs) == FALSE

\* `if not chapters`: print the message and return.
NoChapters(chs) == Len(chs) = 0

CheckChaptersEmpty ==
    /\ pc = "check"
    /\ NoChapters(chapters)
    /\ notFound' = TRUE
    /\ pc' = "done"
    /\ exitCode' = 0
    /\ UNCHANGED <<default_threads, default_format, metaResp, listResp,
                   chapters, total_chapters, task, result, order, chap_contents,
                   progress, built, builder>>

\* total_chapters = len(chapters); chap_contents = []
CheckChaptersFound ==
    /\ pc = "check"
    /\ ~NoChapters(chapters)
    /\ total_chapters' = Len(chapters)
    /\ chap_contents' = <<>>
    /\ pc' = "pool"
    /\ UNCHANGED <<exitCode, default_threads, default_format, metaResp,
                   listResp, notFound, chapters, task, result, order,
                   progress, built, builder>>

\* ThreadPoolExecutor(max_workers=n) raises ValueError unless n > 0.
ValidWorkers(n) == n > 0

\* The executor cannot be created: the ValueError is caught nowhere, so the
\* process ends with a traceback and status 1; nothing has been submitted.
CreatePoolFails ==
    /\ pc = "pool"
    /\ ~ValidWorkers(default_threads)
    /\ pc' = "crashed"
    /\ exitCode' = 1
    /\ UNCHANGED <<default_threads, default_format, metaResp, listResp,
                   notFound, chapters, total_chapters, task, result, order,
                   chap_contents, progress, built, builder>>

\* The executor is created and one download_chapter task per chapter is
\* submitted (the dict comprehension over enumerate(chapters)); tqdm starts at 0.
SubmitAll ==
    /\ pc = "pool"
    /\ ValidWorkers(default_threads)
    /\ task' = [i \in Indices |-> "pending"]
    /\ result' = [i \in Indices |-> NotRun]
    /\ progress' = 0
    /\ pc' = "collect"
    /\ UNCHANGED <<exitCode, default_threads, default_format, metaResp,
                   listResp, notFound, chapters, total_chapters, order,
                   chap_contents, built, builder>>

\* (variant: a pool without a limit)
WorkerAlwaysFree == TRUE

\* A worker thread is free: the pool never runs more than max_workers tasks.
WorkerFree == Cardinality(Running) < default_threads

\* The pool's work queue is first in, first out.
NextInQueue(i) ==
    /\ task[i] = "pending"
    /\ \A j \in DOMAIN task : j < i => task[j] # "pending"

StartTask(i) ==
    /\ pc = "collect"
    /\ NextInQueue(i)
    /\ WorkerFree
    /\ task' = [task EXCEPT ![i] = "running"]
    /\ UNCHANGED <<pc, exitCode, default_threads, default_format, metaResp,
                   listResp, notFound, chapters, total_chapters, result,
                   order, chap_contents, progress, built, builder>>

\* download_chapter(chapters[i]["item_id"]) ends, in any order among the
\* running tasks.
FinishTask(i) ==
    /\ pc = "collect"
    /\ task[i] = "running"
    /\ \E out \in Outcomes(chapters[i + 1].item_id) :
          result' = [result EXCEPT ![i] = out]
    /\ task' = [task EXCEPT ![i] = "done"]
    /\ UNCHANGED <<pc, exitCode, default_threads, default_format, metaResp,
                   listResp, notFound, chapters, total_chapters, order,
                   chap_contents, progress, built, builder>>

\* (variant: the placeholder numbered with the 0-based idx)
ContentZeroBased(idx, v) ==
    IF v.py = "raise" THEN FailedPlaceholderErr(idx - 1, v.exc)
    ELSE IF Truthy(v) THEN v.str
    ELSE FailedPlaceholder(idx - 1)

\* content or f"【章节 {idx+1} 下载失败】", and the except branch's record.
Content(idx, v) ==
    IF v.py = "raise" THEN FailedPlaceholderErr(idx, v.exc)
    ELSE IF Truthy(v) THEN v.str
    ELSE FailedPlaceholder(idx)

\* (variant: a loop whose except branch appends nothing)
CollectedUnlessRaised(cc, idx, v) ==
    IF v.py = "raise" THEN cc
    ELSE Append(cc, [title |-> chapters[idx + 1].title, content |-> Content(idx, v)])

\* chap_contents.append({"title": chapters[idx]["title"], "content": ...})
Collected(cc, idx, v) ==
    Append(cc, [title |-> chapters[idx + 1].title, content |-> Content(idx, v)])

\* (variant: a progress bar that is never advanced)
TqdmNoUpdate(n) == n

\* tqdm counts one more for every item its iterable yields.
TqdmUpdate(n) == n + 1

\* One turn of the loop: as_completed yields a finished future it has not
\* yielded yet (those finished before its call in the order of a set, in no
\* particular order; the others as they finish), idx = futures[future], and
\* the record is appended.
Collect(i) ==
    /\ pc = "collect"
    /\ task[i] = "done"
    /\ i \notin Range(order)
    /\ order' = Append(order, i)
    /\ chap_contents' = Collected(chap_contents, i, result[i])
    /\ progress' = TqdmUpdate(progress)
    /\ UNCHANGED <<pc, exitCode, default_threads, default_format, metaResp,
                   listResp, notFound, chapters, total_chapters, task,
                   result, built, builder>>

\* (variant: the loop left after the first result)
SomeYielded == \E i \in DOMAIN task : i \in Range(order)

\* as_completed is exhausted once every future of the dict has been yielded;
\* the with block then shuts the executor down.
AllYielded == \A i \in DOMAIN task : i \in Range(order)

LoopEnd ==
    /\ pc = "collect"
    /\ AllYielded
    /\ pc' = "sort"
    /\ UNCHANGED <<exitCode, default_threads, default_format, metaResp,
                   listResp, notFound, chapters, total_chapters, task,
                   result, order, chap_contents, progress, built, builder>>

\* The sort key: chapters.index(next(c for c in chapters if c["title"] ==
\* x["title"])), the 0-based place of the first chapter with x's title.
SortKey(chs, x) ==
    CHOOSE k \in 0 .. (Len(chs) - 1) :
        /\ chs[k + 1].title = x.title
        /\ \A j \in 0 .. (k - 1) : chs[j + 1].title # x.title

\* list.sort is stable: a record goes after every record with a smaller key
\* and after the records with the same key that precede it in the list.
SortedPlace(chs, s, q) ==
    Cardinality({r \in 1 .. Len(s) :
                    \/ SortKey(chs, s[r]) < SortKey(chs, s[q])
                    \/ SortKey(chs, s[r]) = SortKey(chs, s[q]) /\ r <= q})

SortedByKey(chs, s) ==
    [p \in 1 .. Len(s) |->
        s[CHOOSE q \in 1 .. Len(s) : SortedPlace(chs, s, q) = p]]

Sort ==
    /\ pc = "sort"
    /\ chap_contents' = SortedByKey(chapters, chap_contents)
    /\ pc' = "build"
    /\ UNCHANGED <<exitCode, default_threads, default_format, metaResp,
                   listResp, notFound, chapters, total_chapters, task,
                   result, order, progress, built, builder>>

\* build_epub when the format is "epub", build_txt otherwise; the builder
\* gets chap_contents and writes the output file.
BuilderFor(fmt) == IF fmt = "epub" THEN "epub" ELSE "txt"

Build ==
    /\ pc = "build"
    /\ built' = chap_contents
    /\ builder' = BuilderFor(default_format)
    /\ pc' = "done"
    /\ exitCode' = 0
    /\ UNCHANGED <<default_threads, default_format, metaResp, listResp,
                   notFound, chapters, total_chapters, task, result, order,
                   chap_contents, progress>>

\* --------------------------------------------------------------------- spec
Download ==
    \/ \E i \in DOMAIN task : StartTask(i)
    \/ \E i \in DOMAIN task : FinishTask(i)
    \/ \E i \in DOMAIN task : Collect(i)
    \/ LoopEnd
    \/ Sort
    \/ Build

Next ==
    \/ MainBadArgs
    \/ Main
    \/ GetBookMetadata
    \/ GetChapterList(Titles)
    \/ CheckChaptersEmpty
    \/ CheckChaptersFound
    \/ CreatePoolFails
    \/ SubmitAll
    \/ Download

Spec == Init /\ [][Next]_vars

\* The pool's threads and the main thread are scheduled by the operating
\* system and every request carries a timeout, so a step of the download
\* that stays possible is eventually taken.
\* When the steps of the download happen does not depend on the titles, so
\* the fair specification draws the chapter lists over a single title.
FairNext ==
    \/ MainBadArgs
    \/ Main
    \/ GetBookMetadata
    \/ GetChapterList({"A"})
    \/ CheckChaptersEmpty
    \/ CheckChaptersFound
    \/ CreatePoolFails
    \/ SubmitAll
    \/ Download

FairSpec == Init /\ [][FairNext]_vars /\ WF_vars(Download)

\* ------------------------------------------------------------------ claims
\* The fetch tasks have been submitted.
Submitted == pc \in {"collect", "sort", "build"} \/ builder # "none"

\* The collection loop has ended.
AfterLoop == pc \in {"sort", "build"} \/ builder # "none"

\* A returned value that is usable text, and one that is not.
Usable(v) == v.py = "str" /\ v.str.form = "text"

IsPlaceholder(c) == c.form \in {"failed", "failedErr"}

TitlesDistinct ==
    \A i, j \in Indices : chapters[i + 1].title = chapters[j + 1].title => i = j

\* The record the task of chapter idx must give rise to.
Expected(idx) ==
    [title |-> chapters[idx + 1].title,
     content |-> IF Usable(result[idx]) THEN result[idx].str
                 ELSE IF result[idx].py = "raise"
                         THEN [form |-> "failedErr", num |-> idx + 1,
                               err |-> result[idx].exc]
                         ELSE [form |-> "failed", num |-> idx + 1, err |-> ""]]

\* C1: the sequence handed to the document builder is in original chapter
\* order: element i carries the title of chapters[i] and the content produced
\* by the task submitted for chapters[i], for every chapter list (duplicate
\* titles included) and every completion order.
C1_BuiltInChapterOrder ==
    builder # "none" =>
        /\ Len(built) = Len(chapters)
        /\ \A i \in Indices : built[i + 1] = Expected(i)

\* C2: when the collection loop ends chap_contents holds exactly
\* len(chapters) records, exactly one per submitted chapter index, whether
\* the fetch succeeded or failed; during the loop no index is recorded twice.
C2_OneRecordPerChapter ==
    /\ Len(chap_contents) = Len(order)
    /\ \A p, q \in 1 .. Len(order) : order[p] = order[q] => p = q
    /\ pc \in {"collect", "sort"} =>
          \A p \in 1 .. Len(order) :
              /\ p <= Len(chap_contents)
              /\ chap_contents[p].title = chapters[order[p] + 1].title
    /\ AfterLoop =>
          /\ Len(chap_contents) = Len(chapters)
          /\ \A i \in Indices :
                Cardinality({p \in 1 .. Len(order) : order[p] = i}) = 1

\* a loop that has ended with a failed and a successful fetch, collected out
\* of chapter order
C2_Witness ==
    /\ pc = "sort"
    /\ Len(chapters) >= 2
    /\ order[1] # 0
    /\ \E i, j \in Indices : Usable(result[i]) /\ result[j].py = "raise"

\* C3: if the fetch of chapter k alone fails, the final sequence has a
\* failure placeholder at position k and the real fetched content at every
\* other position.
C3_FailureIsolatedAtPosition ==
    \A k \in Indices :
        (/\ builder # "none"
         /\ ~Usable(result[k])
         /\ \A j \in Indices \ {k} : Usable(result[j]))
        => /\ Len(built) = Len(chapters)
           /\ IsPlaceholder(built[k + 1].content)
           /\ \A j \in Indices \ {k} :
                 built[j + 1].content = Text(chapters[j + 1].item_id)

\* C4: a concurrency of 0 or less is coerced to at least one worker: with a
\* non-empty chapter list the download does not crash and one fetch task per
\* chapter is submitted.
C4_NonPositiveThreadsCoerced ==
    (default_threads <= 0 /\ total_chapters > 0 /\ pc # "pool")
    => /\ pc # "crashed"
       /\ DOMAIN task = Indices

\* C5: all len(chapters) tasks are submitted up front, and at any moment at
\* most config["default_threads"] of them are running; the others wait.
C5_RunningWithinLimit ==
    Submitted =>
        /\ DOMAIN task = Indices
        /\ Cardinality(Running) <= default_threads

\* the limit binds: every worker is busy and a task waits
C5_Witness ==
    /\ pc = "collect"
    /\ Cardinality(Running) = default_threads
    /\ \E i \in DOMAIN task : task[i] = "pending"

\* C6: a metadata request that fails, or answers with a code other than 0 or
\* with an empty data array, ends the process with a non-zero status before
\* the chapter list is requested, a task is submitted or a builder is called.
C6_MetadataFailureExits ==
    (/\ metaResp # NoResponse
     /\ (metaResp.raised \/ metaResp.code # 0 \/ metaResp.ndata = 0))
    => /\ pc = "exit"
       /\ exitCode # 0 /\ exitCode # -1
       /\ listResp = "unrequested"
       /\ DOMAIN task = {}
       /\ builder = "none"

\* code 0 with an empty data array
C6_Witness ==
    /\ metaResp = [raised |-> FALSE, code |-> 0, ndata |-> 0]
    /\ pc = "exit"

\* C7: when the chapter list is answered with zero chapters, download_novel
\* reports that no chapters were found and returns: no pool, no fetch task,
\* no builder call.
C7_EmptyListNoOutput ==
    (listResp = "ok" /\ Len(chapters) = 0)
    => /\ pc \in {"check", "done"}
       /\ pc = "done" => (notFound /\ exitCode = 0)
       /\ DOMAIN task = {}
       /\ order = <<>>
       /\ builder = "none"

C7_Witness == listResp = "ok" /\ Len(chapters) = 0 /\ pc = "done" /\ notFound

\* C8: sorting and building happen only after every submitted task has
\* finished, and once the tasks are submitted the build step is eventually
\* reached (every fetch returns).
C8_BuildAfterAllTasks ==
    /\ [](AfterLoop => (DOMAIN task = Indices
                          /\ \A i \in Indices : task[i] = "done"))
    /\ (pc = "collect") ~> (builder # "none")

\* a build after tasks that finished out of submission order
C8_Witness ==
    /\ builder # "none"
    /\ Len(chapters) >= 2
    /\ order[1] # 0
    /\ \A i \in Indices : task[i] = "done"

\* C9: a chapter at position k whose fetch yields no usable text (None, an
\* empty string, an exception) is recorded with the failure placeholder
\* numbered k + 1; every record's content is non-empty and is the whole
\* fetched text or a whole placeholder.  With distinct titles the builder
\* gets each of them at its chapter's position.
C9_PlaceholderNumbered ==
    /\ pc \in {"collect", "sort"} =>
          \A p \in 1 .. Len(order) :
              /\ p <= Len(chap_contents)
              /\ chap_contents[p].content = Expected(order[p]).content
    /\ \A p \in 1 .. Len(chap_contents) :
          /\ chap_contents[p].content # EmptyStr
          /\ \/ chap_contents[p].content.form = "text"
             \/ /\ IsPlaceholder(chap_contents[p].content)
                /\ chap_contents[p].content.num \in 1 .. Len(chapters)
    /\ AfterLoop =>
          \A k \in Indices :
              ~Usable(result[k]) =>
                  \E p \in 1 .. Len(chap_contents) :
                      chap_contents[p] = Expected(k)
    /\ (builder # "none" /\ TitlesDistinct) =>
          /\ Len(built) = Len(chapters)
          /\ \A k \in Indices : built[k + 1] = Expected(k)

\* distinct titles, a later chapter collected first, and a chapter other
\* than the first one failing with None or an empty text
C9_Witness ==
    /\ builder # "none"
    /\ TitlesDistinct
    /\ Len(chapters) >= 2
    /\ order[1] # 0
    /\ \E k \in Indices :
          /\ k > 0
          /\ result[k].py \in {"None", "str"}
          /\ ~Usable(result[k])
          /\ built[k + 1].content.num = k + 1

\* C10: the total is len(chapters) before any task completes; the progress
\* count equals the number of results collected so far, never exceeds the
\* total, and equals it when the loop has ended.
C10_ProgressCountsResults ==
    /\ progress = Len(order)
    /\ progress = Len(chap_contents)
    /\ (pc = "pool" \/ Submitted) =>
          /\ total_chapters = Len(chapters)
          /\ progress <= total_chapters
    /\ AfterLoop => progress = total_chapters

\* mid-loop: some results collected, a task still running
C10_Witness ==
    /\ pc = "collect"
    /\ 0 < progress
    /\ progress < total_chapters
    /\ Running # {}

====
